---- MODULE Spec2Model ----
(***************************************************************************)
(* The Shopify -> BigQuery pipeline of src/shopify_to_bigquery.py as a     *)
(* state machine.  The warehouse (dataset, four tables), the shop's        *)
(* collections and every local of run_pipeline are the state; each         *)
(* blocking call of run_pipeline is one action.  The endpoints of          *)
(* src/app.py that call run_pipeline are actions around it.                *)
(***************************************************************************)
EXTENDS Integers, Sequences, FiniteSets, Bags, TLC

\* ------------------------------------------------------------------------
\* Bounds and program constants
\* ------------------------------------------------------------------------

\* Most pages the shop splits one collection into.
MaxPages == 3

\* Most records the shop puts on one page.
MaxPageLen == 2

\* params = {'limit': 250}
PageLimit == 250

\* SELECT * ... LIMIT 1000
ReadLimit == 1000

\* Concurrent invocations of run_pipeline (the endpoints of app.py).
Runs == {"A", "B"}

Entities == <<"customers", "products">>

EntitySet == {Entities[i] : i \in DOMAIN Entities}

None == "none"

\* ------------------------------------------------------------------------
\* JSON values and Python's conversions of them
\* ------------------------------------------------------------------------

\* A JSON value (and a DataFrame cell): t is its type, n its number, s its
\* text, l the elements of a list.
JNull == [t |-> "null", n |-> 0, s |-> "", l |-> <<>>]

JNum(n) == [t |-> "num", n |-> n, s |-> "", l |-> <<>>]

JFloat(n) == [t |-> "float", n |-> n, s |-> "", l |-> <<>>]

JStr(s) == [t |-> "str", n |-> 0, s |-> s, l |-> <<>>]

JList(l) == [t |-> "list", n |-> 0, s |-> "", l |-> l]

\* A pandas Timestamp parsed from text.
JTime(s) == [t |-> "time", n |-> 0, s |-> s, l |-> <<>>]

\* A JSON object (a dict) from its field, value pairs.
Obj(pairs) == [f \in {p[1] : p \in pairs} |-> (CHOOSE p \in pairs : p[1] = f)[2]]

\* dict.get(field, default)
Get(obj, field, default) == IF field \in DOMAIN obj THEN obj[field] ELSE default

\* Truth value of a Python object.
Truthy(v) ==
    IF v.t = "null" THEN FALSE
    ELSE IF v.t \in {"num", "float"} THEN v.n # 0
    ELSE IF v.t = "list" THEN v.l # <<>>
    ELSE v.s # ""

\* Source ids and the text of one more field of a raw record, per entity type.
SourceIds(e) == IF e = "customers" THEN {1, 2} ELSE {7}

SourceBodies(e) == IF e = "customers" THEN {"a", "b"} ELSE {"x", "y"}

\* The field of the raw records that carries the text.
BodyField(e) == IF e = "customers" THEN "email" ELSE "title"

\* Records of the shop: an id and one more field, or a record without 'id'.
RawRecords(e) ==
    {Obj({<<"id", JNum(i)>>, <<BodyField(e), JStr(b)>>}) :
        i \in SourceIds(e), b \in SourceBodies(e)}
    \cup {Obj({<<BodyField(e), JStr(b)>>}) : b \in {"a", "x"} \cap SourceBodies(e)}

\* Sequences of at most n elements of S.
SeqsUpTo(S, n) == UNION {[1..k -> S] : k \in 0..n}

\* No two records of c carry the same id.
UniqueIds(c) ==
    \A i, j \in DOMAIN c :
        ("id" \in DOMAIN c[i] /\ "id" \in DOMAIN c[j] /\ c[i]["id"] = c[j]["id"]) => i = j

\* Collections a shop holds: ordered, every id at most once.
Collections(e) ==
    {c \in SeqsUpTo(RawRecords(e), Cardinality(SourceIds(e))) : UniqueIds(c)}

\* ------------------------------------------------------------------------
\* Table identifiers
\* ------------------------------------------------------------------------

MainTable(e) == e

StagingTable(e) == e \o "_staging"

\* The order in which run_pipeline ensures the four tables.
TableOrder ==
    <<MainTable("customers"), StagingTable("customers"),
      MainTable("products"), StagingTable("products")>>

Tables == {TableOrder[i] : i \in DOMAIN TableOrder}

\* ------------------------------------------------------------------------
\* Pure helpers
\* ------------------------------------------------------------------------

Pc(op, on) == [op |-> op, on |-> on]

\* A completed step: n is the number of records a fetch returned, else 0;
\* ids are the ids of the records a fetch returned.
Event(op, on, n) == [op |-> op, on |-> on, n |-> n, ids |-> <<>>]

\* A URL of the shop: the resource path and the cursor it embeds.
Url(path, cursor) == [path |-> path, page_info |-> cursor]

NoUrl == Url(None, 0)

\* The ids of the records that carry one.
IdsOf(records) ==
    LET F[i \in 0..Len(records)] ==
            IF i = 0 THEN <<>>
            ELSE IF "id" \in DOMAIN records[i] THEN Append(F[i - 1], records[i]["id"])
            ELSE F[i - 1]
    IN  F[Len(records)]

\* fetch_shopify_data returned records.
FetchEvent(on, records) ==
    [op |-> "fetch", on |-> on, n |-> Len(records), ids |-> IdsOf(records)]

Digits == <<"0", "1", "2", "3", "4", "5", "6", "7", "8", "9">>

RECURSIVE Str(_)
\* str(n) of a non-negative integer id.
Str(n) == IF n < 10 THEN Digits[n + 1] ELSE Str(n \div 10) \o Digits[(n % 10) + 1]

Range(s) == {s[i] : i \in DOMAIN s}

\* The rows of a DataFrame as the multiset a load job writes.
BagOfSeq(s) == [x \in Range(s) |-> Cardinality({i \in DOMAIN s : s[i] = x})]

KeysOf(T) == {x.key : x \in BagToSet(T)}

\* Number of rows of table T whose key is k.
KeyCount(T, k) ==
    LET hit == {x \in BagToSet(T) : x.key = k}
    IN  BagCardinality([x \in hit |-> T[x]])

\* Most that a numeric text of the shop stands for.
MaxAmount == 12

\* Timestamp texts pd.to_datetime parses.
Timestamps == {"2024-01-01T00:00:00"}

\* str(x)
PyStr(v) ==
    IF v.t \in {"num", "float"} THEN Str(v.n)
    ELSE IF v.t = "null" THEN "None"
    ELSE IF v.t = "list" THEN "[]"
    ELSE v.s

\* float(x) raises TypeError on None and lists, ValueError on other text.
FloatRaises(v) ==
    \/ v.t \in {"null", "list", "time"}
    \/ v.t = "str" /\ ~\E n \in 0..MaxAmount : Str(n) = v.s

\* float(x): a number as it is, a numeric text parsed.
Float(v) ==
    IF v.t = "str" THEN JFloat(CHOOSE n \in 0..MaxAmount : Str(n) = v.s)
    ELSE JFloat(v.n)

\* pd.to_datetime(x) raises on text that is no timestamp.
ToDatetimeRaises(v) == v.t \notin {"null", "time"} /\ v.s \notin Timestamps

\* pd.to_datetime(x): None gives NaT (a null cell).
ToDatetime(v) == IF v.t = "null" THEN JNull ELSE JTime(v.s)

\* The dict transform_customers builds of one customer.
TransformCustomer(customer) ==
    [key |-> PyStr(customer["id"]),
     cols |-> [email |-> Get(customer, "email", JStr("")),
               first_name |-> Get(customer, "first_name", JStr("")),
               last_name |-> Get(customer, "last_name", JStr("")),
               created_at |-> ToDatetime(Get(customer, "created_at", JNull)),
               updated_at |-> ToDatetime(Get(customer, "updated_at", JNull)),
               orders_count |-> Get(customer, "orders_count", JNum(0)),
               total_spent |-> Float(Get(customer, "total_spent", JFloat(0)))]]

\* The expressions of that dict that raise: customer['id'], float, to_datetime.
CustomerRaises(customer) ==
    \/ "id" \notin DOMAIN customer
    \/ ToDatetimeRaises(Get(customer, "created_at", JNull))
    \/ ToDatetimeRaises(Get(customer, "updated_at", JNull))
    \/ FloatRaises(Get(customer, "total_spent", JFloat(0)))

\* product.get('variants') and product['variants']
HasVariants(product) ==
    Truthy(Get(product, "variants", JNull)) /\ Truthy(product["variants"])

\* A transform that prices a product by the last of its variants.
TransformProductLastVariant(product) ==
    [key |-> PyStr(product["id"]),
     cols |-> [title |-> Get(product, "title", JStr("")),
               vendor |-> Get(product, "vendor", JStr("")),
               product_type |-> Get(product, "product_type", JStr("")),
               created_at |-> ToDatetime(Get(product, "created_at", JNull)),
               updated_at |-> ToDatetime(Get(product, "updated_at", JNull)),
               price |-> IF HasVariants(product)
                         THEN Float(product["variants"].l[Len(product["variants"].l)]["price"])
                         ELSE JFloat(0)]]

\* The dict transform_products builds of one product.
TransformProduct(product) ==
    [key |-> PyStr(product["id"]),
     cols |-> [title |-> Get(product, "title", JStr("")),
               vendor |-> Get(product, "vendor", JStr("")),
               product_type |-> Get(product, "product_type", JStr("")),
               created_at |-> ToDatetime(Get(product, "created_at", JNull)),
               updated_at |-> ToDatetime(Get(product, "updated_at", JNull)),
               price |-> IF HasVariants(product)
                         THEN Float(product["variants"].l[1]["price"])
                         ELSE JFloat(0)]]

\* The expressions of that dict that raise: product['id'], to_datetime,
\* ['variants'][0] of a value that is no list, ['price'], float.
ProductRaises(product) ==
    \/ "id" \notin DOMAIN product
    \/ ToDatetimeRaises(Get(product, "created_at", JNull))
    \/ ToDatetimeRaises(Get(product, "updated_at", JNull))
    \/ /\ HasVariants(product)
       /\ \/ product["variants"].t # "list"
          \/ "price" \notin DOMAIN product["variants"].l[1]
          \/ FloatRaises(product["variants"].l[1]["price"])

transform_customers(customers) ==
    [i \in DOMAIN customers |-> TransformCustomer(customers[i])]

transform_products(products) ==
    [i \in DOMAIN products |-> TransformProduct(products[i])]

\* transform_customers / transform_products as run_pipeline calls them.
Transform(e, records) ==
    IF e = "customers" THEN transform_customers(records)
    ELSE transform_products(records)

\* One record that raises makes the whole comprehension raise.
TransformRaises(e, records) ==
    \E i \in DOMAIN records :
        IF e = "customers" THEN CustomerRaises(records[i])
        ELSE ProductRaises(records[i])

\* MERGE fails when a target row matches more than one source row.
MergeRaises(T, S) == \E k \in KeysOf(T) : KeyCount(S, k) > 1

\* A merge that never updates: WHEN MATCHED is missing.
MergeInsertOnly(T, S) ==
    LET cnt(x) == IF x.key \in KeysOf(T) THEN CopiesIn(x, T) ELSE CopiesIn(x, S)
        all == BagToSet(T) \cup BagToSet(S)
    IN  [x \in {y \in all : cnt(y) > 0} |-> cnt(x)]

\* A full refresh: the main table becomes the staging table.
MergeReplace(T, S) == S

\* A merge that appends: every staging row is inserted.
MergeAppend(T, S) == T (+) S

\* MERGE INTO T USING S ON T.key = S.key
\*   WHEN MATCHED THEN UPDATE SET all fields
\*   WHEN NOT MATCHED THEN INSERT
MergeResult(T, S) ==
    LET cnt(x) ==
            IF x.key \in KeysOf(T)
            THEN IF x.key \in KeysOf(S)
                 THEN IF x \in BagToSet(S) THEN KeyCount(T, x.key) ELSE 0
                 ELSE CopiesIn(x, T)
            ELSE CopiesIn(x, S)
        all == BagToSet(T) \cup BagToSet(S)
    IN  [x \in {y \in all : cnt(y) > 0} |-> cnt(x)]

\* The first link whose text holds rel="next"; NoUrl when there is none.
NextLink(links) ==
    LET hits == {i \in DOMAIN links : links[i].rel = "next"}
    IN  IF hits = {} THEN NoUrl
        ELSE links[CHOOSE i \in hits : \A j \in hits : i <= j].url

\* A read-back without LIMIT.
SamplesUnlimited(T) == {T}

\* value.isoformat() for the datetime values of a row, the others as they are.
Isoformat(v) == IF v.t = "time" THEN JStr(v.s) ELSE v

\* dict(row) with its datetime values serialized.
RowDict(x) == [key |-> x.key, cols |-> [c \in DOMAIN x.cols |-> Isoformat(x.cols[c])]]

\* The dicts fetch_bigquery_data returns of the rows B it read.
RowDicts(B) ==
    [y \in {RowDict(x) : x \in BagToSet(B)} |->
        BagCardinality([x \in {z \in BagToSet(B) : RowDict(z) = y} |-> B[x]])]

Min(a, b) == IF a <= b THEN a ELSE b

RECURSIVE Take(_, _, _)
\* The ways to take k rows of table T among the kinds of row in kinds.
Take(T, kinds, k) ==
    IF kinds = {} THEN (IF k = 0 THEN {EmptyBag} ELSE {})
    ELSE LET x == CHOOSE y \in kinds : TRUE
         IN  UNION {{IF c = 0 THEN b ELSE b (+) [z \in {x} |-> c] :
                        b \in Take(T, kinds \ {x}, k - c)} :
                    c \in 0..Min(T[x], k)}

\* Possible results of SELECT * FROM T LIMIT 1000: any ReadLimit rows of T.
Samples(T) ==
    IF BagCardinality(T) <= ReadLimit THEN {T}
    ELSE Take(T, BagToSet(T), ReadLimit)

\* ------------------------------------------------------------------------
\* State
\* ------------------------------------------------------------------------

VARIABLES
    dataset,      \* whether the BigQuery dataset exists
    exists,       \* table id -> whether the table exists
    rows,         \* table id -> the multiset of rows it holds
    source,       \* run -> the collection the shop serves to the current fetch
    pc,           \* run -> the call of run_pipeline it is about to make
    endpoint,     \* run -> fetch_shopify_data's endpoint (None ends the loop)
    params,       \* run -> fetch_shopify_data's params
    data,         \* run -> fetch_shopify_data's accumulator / its return value
    df,           \* run -> the DataFrame of the entity type being loaded
    result,       \* run -> customers_data / products_data read back so far
    err,          \* run -> the call whose exception run_pipeline re-raised
    reqs,         \* run -> the requests the current fetch has issued, each with its response
    trace,        \* run -> the side-effecting steps this invocation completed
    mainAtStart,  \* run -> content of the main tables when it was invoked
    env,          \* os.environ: setting -> its text, "" when it is not set
    connected,    \* the connect endpoints that have answered with success
    reply,        \* run -> the response of the run endpoint to its request
    requests      \* the requests the run endpoint has taken so far

warehouse == <<dataset, exists, rows>>

fetchLocals == <<source, endpoint, params, data, reqs>>

\* The state of app.py.
app == <<env, connected, reply, requests>>

vars ==
    <<dataset, exists, rows, source, pc, endpoint, params, data, df, result,
      err, reqs, trace, mainAtStart, env, connected, reply, requests>>

\* The settings run_pipeline_endpoint requires, in the order it names them.
Required ==
    <<"SHOPIFY_SHOP_NAME", "SHOPIFY_API_TOKEN", "GCP_PROJECT_ID", "GOOGLE_CREDENTIALS_PATH">>

EnvVars == Range(Required) \cup {"BIGQUERY_DATASET_ID", "GEMINI_API_KEY"}

Connectors == {"shopify", "bigquery"}

\* A response: status 0 when no request was made yet, 1 while the request is
\* being handled, else the HTTP status; missing are the settings it names.
Reply(status, missing) == [status |-> status, missing |-> missing]

NoReply == Reply(0, <<>>)

Handling == Reply(1, <<>>)

\* app.py after both connect endpoints have succeeded, the runs of rs being
\* handled by the run endpoint.
AppRunning(rs) ==
    /\ env = [v \in EnvVars |-> IF v = "BIGQUERY_DATASET_ID" THEN "shopify_data" ELSE "ok"]
    /\ connected = Connectors
    /\ reply = [r \in Runs |-> IF r \in rs THEN Handling ELSE NoReply]
    /\ requests = Cardinality(rs)

\* The params of the first request kept for every request.
LimitParams == {<<"limit", PageLimit>>}

NoParams == {}

NoResult == [e \in EntitySet |-> EmptyBag]

NoErr == [op |-> None, on |-> None, page |-> 0, why |-> None]

Inactive(r) == pc[r].op \in {"idle", "returned", "raised"}

MainRows == [e \in EntitySet |-> rows[MainTable(e)]]

Init ==
    /\ dataset = FALSE
    /\ exists = [t \in Tables |-> FALSE]
    /\ rows = [t \in Tables |-> EmptyBag]
    /\ source = [r \in Runs |-> <<>>]
    /\ pc = [r \in Runs |-> Pc("idle", None)]
    /\ endpoint = [r \in Runs |-> NoUrl]
    /\ params = [r \in Runs |-> NoParams]
    /\ data = [r \in Runs |-> <<>>]
    /\ df = [r \in Runs |-> <<>>]
    /\ result = [r \in Runs |-> NoResult]
    /\ err = [r \in Runs |-> NoErr]
    /\ reqs = [r \in Runs |-> <<>>]
    /\ trace = [r \in Runs |-> <<>>]
    /\ mainAtStart = [r \in Runs |-> [e \in EntitySet |-> EmptyBag]]
    /\ env = [v \in EnvVars |-> ""]
    /\ connected = {}
    /\ reply = [r \in Runs |-> NoReply]
    /\ requests = 0

\* ------------------------------------------------------------------------
\* Control flow of run_pipeline
\* ------------------------------------------------------------------------

\* The call after table t has been ensured.
AfterTable(t) ==
    LET i == CHOOSE j \in DOMAIN TableOrder : TableOrder[j] = t
    IN  IF i < Len(TableOrder) THEN Pc("get_table", TableOrder[i + 1])
        ELSE Pc("fetch", Entities[1])

\* The call after entity type e is processed or skipped.
AfterEntity(e) ==
    IF e = Entities[1] THEN Pc("fetch", Entities[2])
    ELSE Pc("readback", Entities[1])

\* The emptiness test left out.
AfterFetchAlways(e, fetched) == Pc("transform", e)

\* The staging table cleaned up also when nothing was fetched.
AfterFetchCleanup(e, fetched) ==
    IF fetched # <<>> THEN Pc("transform", e) ELSE Pc("delete", e)

\* if customers: ... else: log
AfterFetch(e, fetched) ==
    IF fetched # <<>> THEN Pc("transform", e) ELSE AfterEntity(e)

AfterTransform(e) == Pc("load", e)

\* The staging table deleted before it is merged.
AfterLoadDelete(e) == Pc("delete", e)

AfterLoad(e) == Pc("merge", e)

AfterMerge(e) == Pc("delete", e)

AfterDelete(e) == AfterEntity(e)

AfterReadback(e) ==
    IF e = Entities[1] THEN Pc("readback", Entities[2])
    ELSE Pc("return", None)

Goto(r, to) == pc' = [pc EXCEPT ![r] = to]

Done(r, op, on) == trace' = [trace EXCEPT ![r] = Append(@, Event(op, on, 0))]

\* The frame of run_pipeline is gone: its locals are dropped.
DropLocals(r) ==
    /\ source' = [source EXCEPT ![r] = <<>>]
    /\ endpoint' = [endpoint EXCEPT ![r] = NoUrl]
    /\ params' = [params EXCEPT ![r] = NoParams]
    /\ data' = [data EXCEPT ![r] = <<>>]
    /\ reqs' = [reqs EXCEPT ![r] = <<>>]
    /\ df' = [df EXCEPT ![r] = <<>>]

\* The exception of the call at pc[r]: for a request, page is the page asked for.
ErrAt(r, why) ==
    [op |-> pc[r].op, on |-> pc[r].on, why |-> why,
     page |-> IF pc[r].op = "request" THEN Len(reqs[r]) + 1 ELSE 0]

\* The exception logged and swallowed: the run goes on to return.
RaiseSwallowed(r, why) ==
    /\ Goto(r, Pc("return", None))
    /\ err' = [err EXCEPT ![r] = ErrAt(r, why)]
    /\ UNCHANGED <<fetchLocals, df, result, trace, mainAtStart>>

\* except Exception as e: logger.error(...); raise
Raise(r, why) ==
    /\ Goto(r, Pc("raised", None))
    /\ err' = [err EXCEPT ![r] = ErrAt(r, why)]
    /\ result' = [result EXCEPT ![r] = NoResult]
    /\ DropLocals(r)
    /\ UNCHANGED <<trace, mainAtStart>>

\* ------------------------------------------------------------------------
\* The shop (the source REST API)
\* ------------------------------------------------------------------------

\* What the shop may answer to a GET of path at cursor c of collection coll when it
\* has served p pages of it: the next n records and a Link header, with
\* rel="next" whenever records remain, at most MaxPages pages in all.
ShopResponses(path, coll, c, p) ==
    {[page |-> SubSeq(coll, c + 1, c + nm[1]),
      links |-> (IF c > 0 THEN <<[rel |-> "previous", url |-> Url(path, 0)]>> ELSE <<>>)
                \o (IF nm[2] THEN <<[rel |-> "next", url |-> Url(path, c + nm[1])]>>
                    ELSE <<>>)] :
        nm \in {x \in (0..MaxPageLen) \X BOOLEAN :
                  /\ c + x[1] <= Len(coll)
                  /\ (c + x[1] < Len(coll)) => x[2]
                  /\ x[2] => (p + 1 < MaxPages)}}

\* ------------------------------------------------------------------------
\* run_pipeline, one action per blocking call
\* ------------------------------------------------------------------------

\* run_pipeline is called.
Call(r) ==
    /\ Inactive(r)
    /\ Goto(r, Pc("client", None))
    /\ err' = [err EXCEPT ![r] = NoErr]
    /\ result' = [result EXCEPT ![r] = NoResult]
    /\ trace' = [trace EXCEPT ![r] = <<>>]
    /\ mainAtStart' = [mainAtStart EXCEPT ![r] = MainRows]
    /\ UNCHANGED <<warehouse, fetchLocals, df>>

\* client = get_bigquery_client(...)
GetClient(r) ==
    /\ pc[r].op = "client"
    /\ \E fail \in BOOLEAN :
        IF fail THEN Raise(r, "failed")
        ELSE /\ Goto(r, Pc("get_dataset", None))
             /\ UNCHANGED <<fetchLocals, df, result, err, trace, mainAtStart>>
    /\ UNCHANGED warehouse
    /\ UNCHANGED app

\* create_dataset: client.get_dataset(dataset_ref)
GetDataset(r) ==
    /\ pc[r].op = "get_dataset"
    /\ \E fail \in BOOLEAN :
        IF fail THEN Raise(r, "failed")
        ELSE /\ IF dataset
                THEN Goto(r, Pc("get_table", TableOrder[1])) /\ Done(r, "dataset", None)
                ELSE Goto(r, Pc("create_dataset", None)) /\ UNCHANGED trace
             /\ UNCHANGED <<fetchLocals, df, result, err, mainAtStart>>
    /\ UNCHANGED warehouse
    /\ UNCHANGED app

\* create_dataset: except NotFound: client.create_dataset(dataset, timeout=30)
CreateDataset(r) ==
    /\ pc[r].op = "create_dataset"
    /\ \E fail \in BOOLEAN :
        IF fail \/ dataset
        THEN Raise(r, IF fail THEN "failed" ELSE "conflict") /\ UNCHANGED dataset
        ELSE /\ dataset' = TRUE
             /\ Goto(r, Pc("get_table", TableOrder[1]))
             /\ Done(r, "dataset", None)
             /\ UNCHANGED <<fetchLocals, df, result, err, mainAtStart>>
    /\ UNCHANGED <<exists, rows>>
    /\ UNCHANGED app

\* create_table: check_table_exists(client, table_id)
GetTable(r) ==
    /\ pc[r].op = "get_table"
    /\ \E fail \in BOOLEAN :
        IF fail THEN Raise(r, "failed")
        ELSE /\ IF exists[pc[r].on]
                THEN Goto(r, AfterTable(pc[r].on)) /\ Done(r, "table", pc[r].on)
                ELSE Goto(r, Pc("create_table", pc[r].on)) /\ UNCHANGED trace
             /\ UNCHANGED <<fetchLocals, df, result, err, mainAtStart>>
    /\ UNCHANGED warehouse
    /\ UNCHANGED app

\* create_table: client.create_table(table)
CreateTable(r) ==
    /\ pc[r].op = "create_table"
    /\ \E fail \in BOOLEAN :
        IF fail \/ exists[pc[r].on]
        THEN Raise(r, IF fail THEN "failed" ELSE "conflict") /\ UNCHANGED <<exists, rows>>
        ELSE /\ exists' = [exists EXCEPT ![pc[r].on] = TRUE]
             /\ rows' = [rows EXCEPT ![pc[r].on] = EmptyBag]
             /\ Goto(r, AfterTable(pc[r].on))
             /\ Done(r, "table", pc[r].on)
             /\ UNCHANGED <<fetchLocals, df, result, err, mainAtStart>>
    /\ UNCHANGED dataset
    /\ UNCHANGED app

\* fetch_shopify_data: the statements before the loop
FetchInit(r) ==
    /\ pc[r].op = "fetch"
    /\ \E coll \in Collections(pc[r].on) : source' = [source EXCEPT ![r] = coll]
    /\ params' = [params EXCEPT ![r] = {<<"limit", PageLimit>>}]
    /\ data' = [data EXCEPT ![r] = <<>>]
    /\ endpoint' = [endpoint EXCEPT ![r] = Url(pc[r].on, 0)]
    /\ reqs' = [reqs EXCEPT ![r] = <<>>]
    /\ Goto(r, Pc("request", pc[r].on))
    /\ UNCHANGED <<warehouse, df, result, err, trace, mainAtStart>>
    /\ UNCHANGED app

\* The accumulator replaced by the page instead of extended.
ExtendReplace(acc, page) == page

\* data.extend(response_data[resource_type])
Extend(acc, page) == acc \o page

\* A pipeline that stages and merges every page as it arrives.
RequestMergingPages(r) ==
    /\ pc[r].op = "request"
    /\ \E fail \in BOOLEAN :
        IF fail THEN Raise(r, "failed") /\ UNCHANGED warehouse
        ELSE \E resp \in ShopResponses(pc[r].on, source[r], endpoint[r].page_info,
                                       Len(reqs[r])) :
             /\ reqs' = [reqs EXCEPT ![r] =
                    Append(@, [url |-> endpoint[r], params |-> params[r],
                               page |-> resp.page, links |-> resp.links])]
             /\ data' = [data EXCEPT ![r] = Extend(@, resp.page)]
             /\ endpoint' = [endpoint EXCEPT ![r] = NextLink(resp.links)]
             /\ params' = [params EXCEPT ![r] = NoParams]
             /\ rows' = [rows EXCEPT ![MainTable(pc[r].on)] =
                    IF TransformRaises(pc[r].on, resp.page) THEN @
                    ELSE MergeInsertOnly(@, BagOfSeq(Transform(pc[r].on, resp.page)))]
             /\ IF NextLink(resp.links) = NoUrl
                THEN /\ Goto(r, Pc("fetched", pc[r].on))
                     /\ trace' = [trace EXCEPT ![r] =
                            Append(@, FetchEvent(pc[r].on, Extend(data[r], resp.page)))]
                ELSE UNCHANGED <<pc, trace>>
             /\ UNCHANGED <<source, df, result, err, mainAtStart, dataset, exists>>
    /\ UNCHANGED app

\* fetch_shopify_data: one iteration of the while loop
Request(r) ==
    /\ pc[r].op = "request"
    /\ \E fail \in BOOLEAN :
        IF fail THEN Raise(r, "failed")
        ELSE \E resp \in ShopResponses(pc[r].on, source[r], endpoint[r].page_info,
                                       Len(reqs[r])) :
             /\ reqs' = [reqs EXCEPT ![r] =
                    Append(@, [url |-> endpoint[r], params |-> params[r],
                               page |-> resp.page, links |-> resp.links])]
             /\ data' = [data EXCEPT ![r] = Extend(@, resp.page)]
             /\ endpoint' = [endpoint EXCEPT ![r] = NextLink(resp.links)]
             /\ params' = [params EXCEPT ![r] = NoParams]
             /\ IF NextLink(resp.links) = NoUrl
                THEN /\ Goto(r, Pc("fetched", pc[r].on))
                     /\ trace' = [trace EXCEPT ![r] =
                            Append(@, FetchEvent(pc[r].on, Extend(data[r], resp.page)))]
                ELSE UNCHANGED <<pc, trace>>
             /\ UNCHANGED <<source, df, result, err, mainAtStart>>
    /\ UNCHANGED warehouse
    /\ UNCHANGED app

\* fetch_shopify_data has returned (its frame is gone): if customers: / if products:
Fetched(r) ==
    /\ pc[r].op = "fetched"
    /\ Goto(r, AfterFetch(pc[r].on, data[r]))
    /\ source' = [source EXCEPT ![r] = <<>>]
    /\ reqs' = [reqs EXCEPT ![r] = <<>>]
    /\ UNCHANGED <<warehouse, endpoint, params, data, df, result, err, trace,
                   mainAtStart>>
    /\ UNCHANGED app

\* A transform that leaves out the records it cannot transform.
TransformStepSkipping(r) ==
    /\ pc[r].op = "transform"
    /\ LET Good(rec) == ~TransformRaises(pc[r].on, <<rec>>)
       IN  df' = [df EXCEPT ![r] = Transform(pc[r].on, SelectSeq(data[r], Good))]
    /\ Goto(r, AfterTransform(pc[r].on))
    /\ Done(r, "transform", pc[r].on)
    /\ UNCHANGED <<fetchLocals, result, err, mainAtStart>>
    /\ UNCHANGED warehouse
    /\ UNCHANGED app

\* customers_df = transform_customers(customers)
TransformStep(r) ==
    /\ pc[r].op = "transform"
    /\ IF TransformRaises(pc[r].on, data[r]) THEN Raise(r, "malformed")
       ELSE /\ df' = [df EXCEPT ![r] = Transform(pc[r].on, data[r])]
            /\ Goto(r, AfterTransform(pc[r].on))
            /\ Done(r, "transform", pc[r].on)
            /\ UNCHANGED <<fetchLocals, result, err, mainAtStart>>
    /\ UNCHANGED warehouse
    /\ UNCHANGED app

\* load_to_staging: a WRITE_TRUNCATE load job
LoadToStaging(r) ==
    /\ pc[r].op = "load"
    /\ \E fail \in BOOLEAN :
        IF fail THEN Raise(r, "failed") /\ UNCHANGED <<exists, rows>>
        ELSE /\ exists' = [exists EXCEPT ![StagingTable(pc[r].on)] = TRUE]
             /\ rows' = [rows EXCEPT ![StagingTable(pc[r].on)] = BagOfSeq(df[r])]
             /\ Goto(r, AfterLoad(pc[r].on))
             /\ Done(r, "load", pc[r].on)
             /\ UNCHANGED <<fetchLocals, df, result, err, mainAtStart>>
    /\ UNCHANGED dataset
    /\ UNCHANGED app

\* merge_upsert: the MERGE query job
MergeUpsert(r) ==
    /\ pc[r].op = "merge"
    /\ LET main == MainTable(pc[r].on)
           stg == StagingTable(pc[r].on)
       IN  \E fail \in BOOLEAN :
            IF \/ fail
               \/ ~exists[main]
               \/ ~exists[stg]
               \/ MergeRaises(rows[main], rows[stg])
            THEN /\ Raise(r, IF fail THEN "failed"
                             ELSE IF exists[main] /\ exists[stg] THEN "ambiguous"
                             ELSE "notfound")
                 /\ UNCHANGED rows
            ELSE /\ rows' = [rows EXCEPT ![main] = MergeResult(rows[main], rows[stg])]
                 /\ Goto(r, AfterMerge(pc[r].on))
                 /\ Done(r, "merge", pc[r].on)
                 /\ UNCHANGED <<fetchLocals, df, result, err, mainAtStart>>
    /\ UNCHANGED <<dataset, exists>>
    /\ UNCHANGED app

\* A cleanup whose failure is logged and ignored.
DeleteStagingLenient(r) ==
    /\ pc[r].op = "delete"
    /\ \E fail \in BOOLEAN :
        /\ IF fail THEN UNCHANGED <<exists, rows, trace>>
           ELSE /\ exists' = [exists EXCEPT ![StagingTable(pc[r].on)] = FALSE]
                /\ rows' = [rows EXCEPT ![StagingTable(pc[r].on)] = EmptyBag]
                /\ Done(r, "delete", pc[r].on)
        /\ Goto(r, AfterDelete(pc[r].on))
        /\ UNCHANGED <<fetchLocals, df, result, err, mainAtStart>>
    /\ UNCHANGED dataset
    /\ UNCHANGED app

\* delete_staging_table: client.delete_table(..., not_found_ok=True)
DeleteStaging(r) ==
    /\ pc[r].op = "delete"
    /\ \E fail \in BOOLEAN :
        IF fail THEN Raise(r, "failed") /\ UNCHANGED <<exists, rows>>
        ELSE /\ exists' = [exists EXCEPT ![StagingTable(pc[r].on)] = FALSE]
             /\ rows' = [rows EXCEPT ![StagingTable(pc[r].on)] = EmptyBag]
             /\ Goto(r, AfterDelete(pc[r].on))
             /\ Done(r, "delete", pc[r].on)
             /\ UNCHANGED <<fetchLocals, df, result, err, mainAtStart>>
    /\ UNCHANGED dataset
    /\ UNCHANGED app

\* customers_data = fetch_bigquery_data(client, CUSTOMERS_MAIN_TABLE_ID)
ReadBack(r) ==
    /\ pc[r].op = "readback"
    /\ \E fail \in BOOLEAN :
        IF fail \/ ~exists[MainTable(pc[r].on)]
        THEN Raise(r, IF fail THEN "failed" ELSE "notfound")
        ELSE \E s \in Samples(rows[MainTable(pc[r].on)]) :
             /\ result' = [result EXCEPT ![r][pc[r].on] = RowDicts(s)]
             /\ Goto(r, AfterReadback(pc[r].on))
             /\ Done(r, "readback", pc[r].on)
             /\ UNCHANGED <<fetchLocals, df, err, mainAtStart>>
    /\ UNCHANGED warehouse
    /\ UNCHANGED app

\* return customers_data, products_data
Return(r) ==
    /\ pc[r].op = "return"
    /\ Goto(r, Pc("returned", None))
    /\ DropLocals(r)
    /\ UNCHANGED <<warehouse, result, err, trace, mainAtStart>>
    /\ UNCHANGED app

\* A caller calls run_pipeline.
Invoke(r) ==
    /\ Call(r)
    /\ UNCHANGED app

\* The calls run_pipeline makes.
Calls(r) ==
    \/ GetClient(r)
    \/ GetDataset(r)
    \/ CreateDataset(r)
    \/ GetTable(r)
    \/ CreateTable(r)
    \/ FetchInit(r)
    \/ Request(r)
    \/ Fetched(r)
    \/ TransformStep(r)
    \/ LoadToStaging(r)
    \/ MergeUpsert(r)
    \/ DeleteStaging(r)
    \/ ReadBack(r)
    \/ Return(r)

Step(r) ==
    \/ Invoke(r)
    \/ Calls(r)

\* One caller at a time: invocations of run_pipeline follow one another.
Next == Step("A")

Spec == Init /\ [][Next]_vars

\* ------------------------------------------------------------------------
\* app.py: the connect endpoints and the run endpoint around run_pipeline
\* ------------------------------------------------------------------------

\* Most requests the run endpoint takes.
MaxRequests == 2

\* Texts a request can carry for a setting: none, a text, and a text
\* os.environ refuses to hold (it raises ValueError on an embedded NUL).
Texts == {"", "ok", "bad"}

\* POST /api/connectors/shopify
connect_shopify ==
    /\ \E shop_name \in Texts, api_token \in Texts :
          IF shop_name = "" \/ api_token = "" \/ shop_name = "bad"
          THEN UNCHANGED <<env, connected>>
          ELSE IF api_token = "bad"
          THEN /\ env' = [env EXCEPT !["SHOPIFY_SHOP_NAME"] = shop_name]
               /\ UNCHANGED connected
          ELSE /\ env' = [env EXCEPT !["SHOPIFY_SHOP_NAME"] = shop_name,
                                     !["SHOPIFY_API_TOKEN"] = api_token]
               /\ connected' = connected \cup {"shopify"}
    /\ UNCHANGED <<warehouse, fetchLocals, pc, df, result, err, trace, mainAtStart,
                   reply, requests>>

\* POST /api/connectors/bigquery
connect_bigquery ==
    /\ \E project_id \in Texts, credentials_file \in BOOLEAN, saved \in BOOLEAN :
          IF project_id = "" \/ ~credentials_file \/ ~saved \/ project_id = "bad"
          THEN UNCHANGED <<env, connected>>
          ELSE /\ env' = [env EXCEPT !["GCP_PROJECT_ID"] = project_id,
                                     !["GOOGLE_CREDENTIALS_PATH"] = "ok",
                                     !["BIGQUERY_DATASET_ID"] = "shopify_data"]
               /\ connected' = connected \cup {"bigquery"}
    /\ UNCHANGED <<warehouse, fetchLocals, pc, df, result, err, trace, mainAtStart,
                   reply, requests>>

\* A run endpoint that looks only at the settings of the shop.
MissingOfShop == SelectSeq(SubSeq(Required, 1, 2), LAMBDA v : env[v] = "")

\* [var for var, val in [...] if not val]
Missing == SelectSeq(Required, LAMBDA v : env[v] = "")

\* POST /api/pipelines/run, up to the call of run_pipeline: 400 when a
\* setting is missing, 500 when request.json raises, else run_pipeline.
run_pipeline_endpoint(r) ==
    /\ reply[r] # Handling
    /\ requests < MaxRequests
    /\ requests' = requests + 1
    /\ IF Missing # <<>>
       THEN /\ reply' = [reply EXCEPT ![r] = Reply(400, Missing)]
            /\ UNCHANGED <<warehouse, fetchLocals, pc, df, result, err, trace, mainAtStart>>
       ELSE \E json \in BOOLEAN :
            IF ~json
            THEN /\ reply' = [reply EXCEPT ![r] = Reply(500, <<>>)]
                 /\ UNCHANGED <<warehouse, fetchLocals, pc, df, result, err, trace,
                                mainAtStart>>
            ELSE /\ Call(r)
                 /\ reply' = [reply EXCEPT ![r] = Handling]
    /\ UNCHANGED <<env, connected>>

\* run_pipeline_endpoint after run_pipeline: 200 with the rows it returned,
\* 500 when it raised.
Respond(r) ==
    /\ reply[r] = Handling
    /\ pc[r].op \in {"returned", "raised"}
    /\ reply' = [reply EXCEPT ![r] =
            Reply(IF pc[r].op = "returned" THEN 200 ELSE 500, <<>>)]
    /\ UNCHANGED <<warehouse, fetchLocals, pc, df, result, err, trace, mainAtStart,
                   env, connected, requests>>

\* One request to the run endpoint at a time; the connect endpoints are
\* served at any time.
NextApp ==
    \/ connect_shopify
    \/ connect_bigquery
    \/ run_pipeline_endpoint("A")
    \/ Calls("A")
    \/ Respond("A")

SpecApp == Init /\ [][NextApp]_vars

\* ------------------------------------------------------------------------
\* The loader alone: stage, merge, cleanup of one batch, then the same again
\* ------------------------------------------------------------------------

\* Most rows of the main table when the loader starts.
MaxMainRows == 2

\* Most rows of the batch handed to the loader.
MaxBatch == 2

LoaderEntity == Entities[1]

LoaderRows ==
    {TransformCustomer(Obj({<<"id", JNum(i)>>, <<"email", JStr(b)>>})) :
        i \in {1, 2, 3}, b \in SourceBodies(LoaderEntity)}

\* A staging table left behind by an earlier invocation, or a fresh one.
StagingLeftovers ==
    {EmptyBag,
     BagOfSeq(<<TransformCustomer(Obj({<<"id", JNum(1)>>, <<"email", JStr("b")>>}))>>)}

\* The loader is entered with any main table (BigQuery enforces no key) and
\* any batch: run_pipeline is at load_to_staging for the first entity type.
InitLoader ==
    /\ dataset = TRUE
    /\ exists = [t \in Tables |-> TRUE]
    /\ \E T \in {BagOfSeq(q) : q \in SeqsUpTo(LoaderRows, MaxMainRows)} :
       \E L \in StagingLeftovers :
          rows = [t \in Tables |->
                    IF t = MainTable(LoaderEntity) THEN T
                    ELSE IF t = StagingTable(LoaderEntity) THEN L
                    ELSE EmptyBag]
    /\ source = [r \in Runs |-> <<>>]
    /\ pc = [r \in Runs |-> IF r = "A" THEN Pc("load", LoaderEntity) ELSE Pc("idle", None)]
    /\ endpoint = [r \in Runs |-> NoUrl]
    /\ params = [r \in Runs |-> NoParams]
    /\ data = [r \in Runs |-> <<>>]
    /\ \E batch \in SeqsUpTo(LoaderRows, MaxBatch) :
          df = [r \in Runs |-> IF r = "A" THEN batch ELSE <<>>]
    /\ result = [r \in Runs |-> NoResult]
    /\ err = [r \in Runs |-> NoErr]
    /\ reqs = [r \in Runs |-> <<>>]
    /\ trace = [r \in Runs |-> <<>>]
    /\ mainAtStart = [r \in Runs |-> MainRows]
    /\ AppRunning({"A"})

Count(tr, op, on) == Cardinality({i \in DOMAIN tr : tr[i].op = op /\ tr[i].on = on})

\* The caller hands the identical batch to the loader once more.
Reload(r) ==
    /\ pc[r] = AfterDelete(LoaderEntity)
    /\ Count(trace[r], "delete", LoaderEntity) = 1
    /\ Goto(r, Pc("load", LoaderEntity))
    /\ mainAtStart' = [mainAtStart EXCEPT ![r] = MainRows]
    /\ UNCHANGED <<warehouse, fetchLocals, df, result, err, trace>>
    /\ UNCHANGED app

NextLoader ==
    \/ LoadToStaging("A")
    \/ MergeUpsert("A")
    \/ DeleteStaging("A")
    \/ Reload("A")

SpecLoader == InitLoader /\ [][NextLoader]_vars

\* ------------------------------------------------------------------------
\* The schema manager alone: two invocations ensure the dataset and tables
\* ------------------------------------------------------------------------

NextEnsure ==
    \E r \in Runs :
        \/ Invoke(r)
        \/ GetClient(r)
        \/ GetDataset(r)
        \/ CreateDataset(r)
        \/ GetTable(r)
        \/ CreateTable(r)

SpecEnsure == Init /\ [][NextEnsure]_vars

\* ------------------------------------------------------------------------
\* One run on a warehouse that is in use: the dataset and the tables exist
\* and the customers main table holds rows of earlier loads
\* ------------------------------------------------------------------------

\* The steps create_dataset and create_table complete on such a warehouse.
EnsureTrace ==
    <<Event("dataset", None, 0)>>
    \o [i \in DOMAIN TableOrder |-> Event("table", TableOrder[i], 0)]

\* Main tables of earlier loads: a row the shop still serves and a row it
\* serves no more, each absent, there once or there ReadLimit times.
MainPreloads ==
    LET kept == TransformCustomer(Obj({<<"id", JNum(1)>>, <<"email", JStr("a")>>}))
        gone == TransformCustomer(Obj({<<"id", JNum(3)>>, <<"email", JStr("a")>>}))
    IN  {[x \in {y \in {kept, gone} : (IF y = kept THEN k ELSE g) > 0} |->
            IF x = kept THEN k ELSE g] :
         k \in {0, 1, ReadLimit}, g \in {0, 1}}

InitSample ==
    /\ dataset = TRUE
    /\ exists = [t \in Tables |-> TRUE]
    /\ \E T \in MainPreloads :
          rows = [t \in Tables |-> IF t = MainTable(Entities[1]) THEN T ELSE EmptyBag]
    /\ source = [r \in Runs |-> <<>>]
    /\ pc = [r \in Runs |-> IF r = "A" THEN Pc("fetch", Entities[1]) ELSE Pc("idle", None)]
    /\ endpoint = [r \in Runs |-> NoUrl]
    /\ params = [r \in Runs |-> NoParams]
    /\ data = [r \in Runs |-> <<>>]
    /\ df = [r \in Runs |-> <<>>]
    /\ result = [r \in Runs |-> NoResult]
    /\ err = [r \in Runs |-> NoErr]
    /\ reqs = [r \in Runs |-> <<>>]
    /\ trace = [r \in Runs |-> IF r = "A" THEN EnsureTrace ELSE <<>>]
    /\ mainAtStart = [r \in Runs |-> MainRows]
    /\ AppRunning({"A"})

NextSample ==
    \/ FetchInit("A")
    \/ Request("A")
    \/ Fetched("A")
    \/ TransformStep("A")
    \/ LoadToStaging("A")
    \/ MergeUpsert("A")
    \/ DeleteStaging("A")
    \/ ReadBack("A")
    \/ Return("A")

SpecSample == InitSample /\ [][NextSample]_vars

\* ------------------------------------------------------------------------
\* app.py: the analyze endpoint around run_pipeline
\* ------------------------------------------------------------------------

\* customers_data[:10], products_data[:10]
ContextLimit == 10

\* The settings analyze_with_gemini wants set before it calls run_pipeline.
ContextSettings == <<"SHOPIFY_SHOP_NAME", "GCP_PROJECT_ID", "GOOGLE_CREDENTIALS_PATH">>

\* data_context: not given (None), or the rows of each entity type.
Context(given, rs) == [given |-> given, rows |-> rs]

NoContext == Context(FALSE, NoResult)

\* A response of the analyze endpoint (status as in Reply) and the
\* data_context it handed to analyze_data.
Analysis(status, context) == [status |-> status, missing |-> <<>>, context |-> context]

\* The whole list handed on.
FirstRowsUnlimited(B) == {B}

\* rows[:10] of the rows B in the order the read-back returned them, which
\* the query leaves open: any ContextLimit of them.
FirstRows(B) ==
    IF BagCardinality(B) <= ContextLimit THEN {B}
    ELSE Take(B, BagToSet(B), ContextLimit)

\* POST /api/gemini/analyze, up to the call of run_pipeline: 500 when
\* request.json raises or gives no object, 400 without a prompt or without
\* GEMINI_API_KEY, run_pipeline when the three settings are set, else
\* analyze_data without data context.
analyze_with_gemini(r) ==
    /\ reply[r].status # 1
    /\ requests < MaxRequests
    /\ requests' = requests + 1
    /\ \E json \in BOOLEAN, prompt \in BOOLEAN :
          IF ~json \/ ~prompt \/ env["GEMINI_API_KEY"] = ""
          THEN /\ reply' = [reply EXCEPT ![r] =
                      Analysis(IF ~json THEN 500 ELSE 400, NoContext)]
               /\ UNCHANGED <<warehouse, fetchLocals, pc, df, result, err, trace,
                              mainAtStart>>
          ELSE IF \A i \in DOMAIN ContextSettings : env[ContextSettings[i]] # ""
          THEN /\ Call(r)
               /\ reply' = [reply EXCEPT ![r] = Analysis(1, NoContext)]
          ELSE /\ reply' = [reply EXCEPT ![r] = Analysis(200, NoContext)]
               /\ UNCHANGED <<warehouse, fetchLocals, pc, df, result, err, trace,
                              mainAtStart>>
    /\ UNCHANGED <<env, connected>>

\* analyze_with_gemini after run_pipeline: the first rows of what it
\* returned as data_context, none when it raised; analyze_data returns a
\* text whatever happens, the response is 200.
analyze_data(r) ==
    /\ reply[r].status = 1
    /\ pc[r].op \in {"returned", "raised"}
    /\ IF pc[r].op = "returned"
       THEN \E c \in FirstRows(result[r][Entities[1]]),
               p \in FirstRows(result[r][Entities[2]]) :
               reply' = [reply EXCEPT ![r] =
                   Analysis(200, Context(TRUE, [e \in EntitySet |->
                                                  IF e = Entities[1] THEN c ELSE p]))]
       ELSE reply' = [reply EXCEPT ![r] = Analysis(200, NoContext)]
    /\ UNCHANGED <<warehouse, fetchLocals, pc, df, result, err, trace, mainAtStart,
                   env, connected, requests>>

\* The calls of the run_pipeline the analyze endpoint started. It hands on
\* os.getenv('SHOPIFY_API_TOKEN') as it is: without a token the shop
\* refuses the request and raise_for_status raises.
AnalyzeCalls(r) ==
    /\ Calls(r)
    /\ (env["SHOPIFY_API_TOKEN"] = "" /\ pc[r].op = "request") => pc'[r].op = "raised"

\* What os.environ can hold: the shop settings not set, the shop name alone
\* or both (shop 0, 1, 2), the BigQuery settings or none, the Gemini key or
\* none.
Settings(shop, bq, key) ==
    [v \in EnvVars |->
        IF v = "SHOPIFY_SHOP_NAME" THEN (IF shop >= 1 THEN "ok" ELSE "")
        ELSE IF v = "SHOPIFY_API_TOKEN" THEN (IF shop = 2 THEN "ok" ELSE "")
        ELSE IF v = "BIGQUERY_DATASET_ID" THEN (IF bq THEN "shopify_data" ELSE "")
        ELSE IF v = "GEMINI_API_KEY" THEN (IF key THEN "ok" ELSE "")
        ELSE (IF bq THEN "ok" ELSE "")]

\* The analyze endpoint on a warehouse that is new or in use.
InitAnalyze ==
    /\ \/ /\ dataset = FALSE
          /\ exists = [t \in Tables |-> FALSE]
          /\ rows = [t \in Tables |-> EmptyBag]
       \/ /\ dataset = TRUE
          /\ exists = [t \in Tables |-> TRUE]
          /\ \E T \in MainPreloads :
                rows = [t \in Tables |-> IF t = MainTable(Entities[1]) THEN T ELSE EmptyBag]
    /\ source = [r \in Runs |-> <<>>]
    /\ pc = [r \in Runs |-> Pc("idle", None)]
    /\ endpoint = [r \in Runs |-> NoUrl]
    /\ params = [r \in Runs |-> NoParams]
    /\ data = [r \in Runs |-> <<>>]
    /\ df = [r \in Runs |-> <<>>]
    /\ result = [r \in Runs |-> NoResult]
    /\ err = [r \in Runs |-> NoErr]
    /\ reqs = [r \in Runs |-> <<>>]
    /\ trace = [r \in Runs |-> <<>>]
    /\ mainAtStart = [r \in Runs |-> MainRows]
    /\ \E shop \in 0..2, bq \in BOOLEAN, key \in BOOLEAN :
          /\ env = Settings(shop, bq, key)
          /\ connected = {c \in Connectors : IF c = "shopify" THEN shop = 2 ELSE bq}
    /\ reply = [r \in Runs |-> NoReply]
    /\ requests = 0

\* One request to the analyze endpoint at a time.
NextAnalyze ==
    \/ analyze_with_gemini("A")
    \/ AnalyzeCalls("A")
    \/ analyze_data("A")

SpecAnalyze == InitAnalyze /\ [][NextAnalyze]_vars

\* ------------------------------------------------------------------------
\* The transformer alone: run_pipeline is at transform_customers or
\* transform_products with any batch the shop's JSON can make up
\* ------------------------------------------------------------------------

\* Most records of the batch handed to the transformer.
MaxRecords == 2

\* The fields of a raw record besides id, total_spent and variants.
OtherFields(e) ==
    IF e = "customers"
    THEN {"email", "first_name", "last_name", "orders_count", "created_at", "updated_at"}
    ELSE {"title", "vendor", "product_type", "created_at", "updated_at"}

\* A value the shop sends in such a field.
FieldValue(f) ==
    IF f \in {"created_at", "updated_at"} THEN JStr(CHOOSE x \in Timestamps : TRUE)
    ELSE IF f = "orders_count" THEN JNum(3)
    ELSE JStr("a")

\* The other fields all absent, all null or all carrying a value.
OtherParts(e) ==
    {{}, {<<f, JNull>> : f \in OtherFields(e)}, {<<f, FieldValue(f)>> : f \in OtherFields(e)}}

\* Variant lists: none, one variant, two variants, a variant without price.
VariantLists ==
    {<<>>,
     <<Obj({<<"price", JStr("5")>>})>>,
     <<Obj({<<"price", JStr("5")>>}), Obj({<<"price", JNum(9)>>})>>,
     <<Obj({<<"title", JStr("a")>>})>>}

\* The field f absent, null or carrying one of the values.
FieldParts(f, values) == {{}, {<<f, JNull>>}} \cup {{<<f, v>>} : v \in values}

\* Raw records of entity type e: each field absent, null or present.
TransformInputs(e) ==
    {Obj(id \cup own \cup others) :
        id \in {{}} \cup {{<<"id", JNum(i)>>} : i \in SourceIds(e)},
        own \in IF e = "customers" THEN FieldParts("total_spent", {JStr("12")})
                ELSE FieldParts("variants", {JList(l) : l \in VariantLists}),
        others \in OtherParts(e)}

InitTransform ==
    /\ dataset = TRUE
    /\ exists = [t \in Tables |-> TRUE]
    /\ rows = [t \in Tables |-> EmptyBag]
    /\ source = [r \in Runs |-> <<>>]
    /\ endpoint = [r \in Runs |-> NoUrl]
    /\ params = [r \in Runs |-> NoParams]
    /\ df = [r \in Runs |-> <<>>]
    /\ result = [r \in Runs |-> NoResult]
    /\ err = [r \in Runs |-> NoErr]
    /\ reqs = [r \in Runs |-> <<>>]
    /\ mainAtStart = [r \in Runs |-> MainRows]
    /\ \E e \in EntitySet :
       \E batch \in SeqsUpTo(TransformInputs(e), MaxRecords) \ {<<>>} :
          /\ pc = [r \in Runs |-> IF r = "A" THEN Pc("transform", e) ELSE Pc("idle", None)]
          /\ data = [r \in Runs |-> IF r = "A" THEN batch ELSE <<>>]
          /\ trace = [r \in Runs |->
                IF r = "A"
                THEN EnsureTrace
                     \o (IF e = Entities[1] THEN <<>> ELSE <<FetchEvent(Entities[1], <<>>)>>)
                     \o <<FetchEvent(e, batch)>>
                ELSE <<>>]
    /\ AppRunning({"A"})

NextTransform == TransformStep("A")

SpecTransform == InitTransform /\ [][NextTransform]_vars

\* ------------------------------------------------------------------------
\* One entity type against a shop whose pages may repeat a record:
\* run_pipeline is in fetch_shopify_data for customers, before the loop
\* ------------------------------------------------------------------------

\* Most records the shop serves to one fetch.
MaxServed == 2

InitPages ==
    /\ dataset = TRUE
    /\ exists = [t \in Tables |-> TRUE]
    /\ \E T \in {B \in MainPreloads : BagCardinality(B) <= 1} :
          rows = [t \in Tables |-> IF t = MainTable(Entities[1]) THEN T ELSE EmptyBag]
    /\ \E coll \in SeqsUpTo(RawRecords(Entities[1]), MaxServed) :
          source = [r \in Runs |-> IF r = "A" THEN coll ELSE <<>>]
    /\ pc = [r \in Runs |-> IF r = "A" THEN Pc("request", Entities[1]) ELSE Pc("idle", None)]
    /\ endpoint = [r \in Runs |-> IF r = "A" THEN Url(Entities[1], 0) ELSE NoUrl]
    /\ params = [r \in Runs |-> IF r = "A" THEN {<<"limit", PageLimit>>} ELSE NoParams]
    /\ data = [r \in Runs |-> <<>>]
    /\ df = [r \in Runs |-> <<>>]
    /\ result = [r \in Runs |-> NoResult]
    /\ err = [r \in Runs |-> NoErr]
    /\ reqs = [r \in Runs |-> <<>>]
    /\ trace = [r \in Runs |-> IF r = "A" THEN EnsureTrace ELSE <<>>]
    /\ mainAtStart = [r \in Runs |-> MainRows]
    /\ AppRunning({"A"})

NextPages ==
    \/ Request("A")
    \/ Fetched("A")
    \/ TransformStep("A")
    \/ LoadToStaging("A")
    \/ MergeUpsert("A")
    \/ DeleteStaging("A")

SpecPages == InitPages /\ [][NextPages]_vars

\* ------------------------------------------------------------------------
\* Two invocations load the same entity type at once: both are at
\* load_to_staging for customers, each with its own batch
\* ------------------------------------------------------------------------

DistinctKeys(batch) == \A i, j \in DOMAIN batch : batch[i].key = batch[j].key => i = j

\* Batches of a shop that serves every id once.
RaceBatches == {b \in SeqsUpTo(LoaderRows, MaxBatch) \ {<<>>} : DistinctKeys(b)}

InitRace ==
    /\ dataset = TRUE
    /\ exists = [t \in Tables |-> TRUE]
    /\ \E T \in {B \in MainPreloads : BagCardinality(B) <= 1} :
          rows = [t \in Tables |-> IF t = MainTable(LoaderEntity) THEN T ELSE EmptyBag]
    /\ source = [r \in Runs |-> <<>>]
    /\ pc = [r \in Runs |-> Pc("load", LoaderEntity)]
    /\ endpoint = [r \in Runs |-> NoUrl]
    /\ params = [r \in Runs |-> NoParams]
    /\ data = [r \in Runs |-> <<>>]
    /\ df \in [Runs -> RaceBatches]
    /\ result = [r \in Runs |-> NoResult]
    /\ err = [r \in Runs |-> NoErr]
    /\ reqs = [r \in Runs |-> <<>>]
    /\ trace = [r \in Runs |-> <<>>]
    /\ mainAtStart = [r \in Runs |-> MainRows]
    /\ AppRunning(Runs)

NextRace ==
    \E r \in Runs :
        \/ LoadToStaging(r)
        \/ MergeUpsert(r)
        \/ DeleteStaging(r)

SpecRace == InitRace /\ [][NextRace]_vars

\* ------------------------------------------------------------------------
\* Claims
\* ------------------------------------------------------------------------

\* C1: after load_to_staging and merge_upsert of a batch with distinct keys,
\* every batch key that was in the main table holds the batch's values in all
\* its rows, every batch key that was not is present as exactly one new row
\* with the batch's values, and every row whose key is not in the batch is
\* there as often as before.
C1_UpsertCorrect ==
    LET T0 == mainAtStart["A"][LoaderEntity]
        T1 == rows[MainTable(LoaderEntity)]
        B  == BagOfSeq(df["A"])
    IN  ( /\ pc["A"].op # "raised"
          /\ Count(trace["A"], "load", LoaderEntity) = 1
          /\ Count(trace["A"], "merge", LoaderEntity) = 1
          /\ DistinctKeys(df["A"]) )
        =>
        /\ \A b \in BagToSet(B) :
              /\ KeyCount(T1, b.key) = CopiesIn(b, T1)
              /\ CopiesIn(b, T1) =
                    (IF b.key \in KeysOf(T0) THEN KeyCount(T0, b.key) ELSE 1)
        /\ \A x \in BagToSet(T0) \cup BagToSet(T1) :
              x.key \notin KeysOf(B) => CopiesIn(x, T1) = CopiesIn(x, T0)

\* C1 witness: a merge that updated one key, inserted another and had a
\* third key to leave alone.
C1_Witness ==
    LET T0 == mainAtStart["A"][LoaderEntity]
        B  == BagOfSeq(df["A"])
    IN  /\ pc["A"] = AfterMerge(LoaderEntity)
        /\ Count(trace["A"], "load", LoaderEntity) = 1
        /\ Count(trace["A"], "merge", LoaderEntity) = 1
        /\ DistinctKeys(df["A"])
        /\ \E b1, b2 \in BagToSet(B) :
              /\ b1.key \in KeysOf(T0)
              /\ b1 \notin BagToSet(T0)
              /\ b2.key \notin KeysOf(T0)
        /\ \E x \in BagToSet(T0) : x.key \notin KeysOf(B)

\* C2: once stage, merge and cleanup have run for a batch, running them again
\* for the identical batch leaves the main table as the first run left it:
\* the same rows, each as often as before.
C2_Idempotent ==
    Count(trace["A"], "load", LoaderEntity) = 2
    => rows[MainTable(LoaderEntity)] = mainAtStart["A"][LoaderEntity]

\* C2 witness: the second stage, merge, cleanup of a non-empty batch is over.
C2_Witness ==
    /\ Count(trace["A"], "merge", LoaderEntity) = 2
    /\ Count(trace["A"], "delete", LoaderEntity) = 2
    /\ Len(df["A"]) = MaxBatch
    /\ rows[MainTable(LoaderEntity)] # EmptyBag

\* The order run_pipeline is to take its side-effecting steps in.
StepOrder ==
    <<Pc("dataset", None)>>
    \o [i \in DOMAIN TableOrder |-> Pc("table", TableOrder[i])]
    \o <<Pc("fetch", Entities[1]), Pc("transform", Entities[1]), Pc("load", Entities[1]),
         Pc("merge", Entities[1]), Pc("delete", Entities[1]),
         Pc("fetch", Entities[2]), Pc("transform", Entities[2]), Pc("load", Entities[2]),
         Pc("merge", Entities[2]), Pc("delete", Entities[2]),
         Pc("readback", Entities[1]), Pc("readback", Entities[2])>>

Rank(op, on) == CHOOSE i \in DOMAIN StepOrder : StepOrder[i] = Pc(op, on)

\* The place in StepOrder of the step a failed call belongs to (0: before all).
ErrRank(e) ==
    IF e.op = "client" THEN 0
    ELSE IF e.op \in {"get_dataset", "create_dataset"} THEN Rank("dataset", None)
    ELSE IF e.op \in {"get_table", "create_table"} THEN Rank("table", e.on)
    ELSE IF e.op = "request" THEN Rank("fetch", e.on)
    ELSE Rank(e.op, e.on)

Has(tr, op, on) == Count(tr, op, on) > 0

\* The fetch of entity type on returned no record.
Skipped(tr, on) == \E i \in DOMAIN tr : tr[i] = Event("fetch", on, 0)

\* C7: when fetch_shopify_data returns, it returns exactly the records of the
\* collection the shop served, in the shop's order, whatever the split into
\* pages was; it raises only when a request failed.
C7_FetchComplete ==
    \A r \in Runs :
        /\ pc[r].op = "fetched" => data[r] = source[r]
        /\ (pc[r].op = "raised" /\ err[r].op = "request") => err[r].why = "failed"

\* C7 witness: a fetch returned two records it got on two different pages.
C7_Witness ==
    \E r \in Runs :
        /\ pc[r].op = "fetched"
        /\ Len(data[r]) = 2
        /\ \E i \in DOMAIN reqs[r] : i > 1 /\ reqs[r][i].url.page_info = 1

\* C7 witness of the empty collection: one empty page, an empty result.
C7_WitnessEmpty ==
    \E r \in Runs : pc[r].op = "fetched" /\ data[r] = <<>> /\ Len(reqs[r]) = 1

\* C3: when a request for a page after the first fails, the run has not
\* transformed, staged or merged that entity type and its main table holds
\* what it held when the run began.
C3_FetchFailureNoMerge ==
    \A r \in Runs :
        (pc[r].op = "raised" /\ err[r].op = "request" /\ err[r].page > 1)
        => /\ ~Has(trace[r], "transform", err[r].on)
           /\ ~Has(trace[r], "load", err[r].on)
           /\ ~Has(trace[r], "merge", err[r].on)
           /\ rows[MainTable(err[r].on)] = mainAtStart[r][err[r].on]

\* C3 witness: the request for page 2 failed, the main table is not empty.
C3_Witness ==
    \E r \in Runs :
        /\ pc[r].op = "raised"
        /\ err[r].op = "request"
        /\ err[r].page = 2
        /\ rows[MainTable(err[r].on)] # EmptyBag

\* C4 as claimed: the staging table of an entity type does not exist once
\* the run has loaded that type (stage, merge, cleanup), and does not exist
\* after a run whose merge of that type failed.
C4_StagingAbsent ==
    \A r \in Runs :
        /\ \A e \in EntitySet : Has(trace[r], "delete", e) => ~exists[StagingTable(e)]
        /\ (pc[r].op = "raised" /\ err[r].op = "merge")
              => ~exists[StagingTable(err[r].on)]

\* C5: a failing call ends the run: run_pipeline raises, returns no rows, and
\* has completed no step that comes after the failing one; the failure
\* changes no main table, so what was merged before it stays merged.
C5_Inv ==
    \A r \in Runs :
        /\ (err[r] # NoErr) <=> (pc[r].op = "raised")
        /\ (err[r] # NoErr) =>
              /\ result[r] = NoResult
              /\ \A i \in DOMAIN trace[r] :
                    Rank(trace[r][i].op, trace[r][i].on) < ErrRank(err[r])

C5_FailureAborts ==
    /\ []C5_Inv
    /\ [][\A r \in Runs : (pc'[r].op = "raised") => (MainRows' = MainRows)]_vars

\* C5 witness: the products merge failed after the customers merge, and the
\* customers main table holds rows it did not hold when the run began.
C5_Witness ==
    \E r \in Runs :
        /\ pc[r].op = "raised"
        /\ err[r].op = "merge"
        /\ err[r].on = Entities[2]
        /\ Has(trace[r], "merge", Entities[1])
        /\ rows[MainTable(Entities[1])] # mainAtStart[r][Entities[1]]

\* C6: after a fetch that returned no record the run takes no transform,
\* load, merge or delete step for that entity type, no call of such a step
\* fails, the main table of that type stays as it was when the run began,
\* and until the next step completes the run is in the fetch of the next
\* entity type or in the read-back.
C6_EmptyFetchSkips ==
    \A r \in Runs : \A e \in EntitySet :
        Skipped(trace[r], e) =>
            /\ \A op \in {"transform", "load", "merge", "delete"} :
                  /\ ~Has(trace[r], op, e)
                  /\ ~(err[r].op = op /\ err[r].on = e)
            /\ rows[MainTable(e)] = mainAtStart[r][e]
            /\ (trace[r][Len(trace[r])] = Event("fetch", e, 0) /\ pc[r].op # "raised")
                  => \/ pc[r] = Pc("fetched", e)
                     \/ pc[r] = AfterEntity(e)
                     \/ pc[r] = Pc("request", AfterEntity(e).on)

\* C6 witness: a run returned its result with the customers fetch empty and
\* a customers main table that is not empty.
C6_Witness ==
    \E r \in Runs :
        /\ pc[r].op = "returned"
        /\ Skipped(trace[r], Entities[1])
        /\ ~Skipped(trace[r], Entities[2])
        /\ rows[MainTable(Entities[1])] # EmptyBag

\* C8: the steps a run has completed are in the order of StepOrder, and none
\* is there without the steps it rests on: a table only after the dataset, a
\* fetch only after both tables of its type, load, merge, delete each only
\* after the one before, products only after customers are processed or
\* skipped, the read-back only after both are.
C8_StepOrder ==
    \A r \in Runs :
        LET tr == trace[r]
            Processed(e) == Skipped(tr, e) \/ Has(tr, "delete", e)
        IN  /\ \A i, j \in DOMAIN tr :
                  i < j => Rank(tr[i].op, tr[i].on) < Rank(tr[j].op, tr[j].on)
            /\ \A t \in Tables : Has(tr, "table", t) => Has(tr, "dataset", None)
            /\ \A e \in EntitySet :
                  /\ Has(tr, "fetch", e) =>
                        Has(tr, "table", MainTable(e)) /\ Has(tr, "table", StagingTable(e))
                  /\ Has(tr, "transform", e) => Has(tr, "fetch", e)
                  /\ Has(tr, "load", e) => Has(tr, "transform", e)
                  /\ Has(tr, "merge", e) => Has(tr, "load", e)
                  /\ Has(tr, "delete", e) => Has(tr, "merge", e)
                  /\ Has(tr, "readback", e) => \A f \in EntitySet : Processed(f)
            /\ Has(tr, "fetch", Entities[2]) => Processed(Entities[1])

\* C8 witness: a run that processed both entity types and read both back.
C8_Witness ==
    \E r \in Runs :
        /\ pc[r].op = "returned"
        /\ Len(trace[r]) = Len(StepOrder)

\* C9 as claimed: a failure of delete_staging_table does not end the run.
C9_CleanupNonFatal ==
    \A r \in Runs : ~(pc[r].op = "raised" /\ err[r].op = "delete")

\* C9 as amended: a failure of delete_staging_table ends the run: it raises,
\* returns no rows, the merge before it is the last step completed and the
\* staging table is still there; a run gets past the cleanup of an entity
\* type it merged only when the deletion succeeded.
C9_CleanupFatal ==
    \A r \in Runs :
        /\ err[r].op = "delete" =>
              /\ pc[r].op = "raised"
              /\ result[r] = NoResult
              /\ trace[r][Len(trace[r])] = Event("merge", err[r].on, 0)
              /\ exists[StagingTable(err[r].on)]
        /\ \A e \in EntitySet :
              (Has(trace[r], "merge", e) /\ ~Has(trace[r], "delete", e))
              => \/ pc[r] = AfterMerge(e)
                 \/ (pc[r].op = "raised" /\ err[r].op = "delete" /\ err[r].on = e)

\* C9 witness: the cleanup of the customers staging table failed.
C9_Witness ==
    \E r \in Runs :
        /\ pc[r].op = "raised"
        /\ err[r].op = "delete"
        /\ err[r].on = Entities[1]
        /\ rows[MainTable(Entities[1])] # mainAtStart[r][Entities[1]]

\* C10 as claimed: no call that ensures the dataset or a table fails because
\* the dataset or table exists already.
C10_EnsureTolerant ==
    \A r \in Runs : err[r].why # "conflict"

\* The event of the fetch of entity type on in tr.
FetchOf(tr, on) == tr[CHOOSE i \in DOMAIN tr : tr[i].op = "fetch" /\ tr[i].on = on]

\* The sample of entity type e is of the records the run fetched: as many
\* rows as records, at most ReadLimit, each keyed by str of a fetched id.
SampleOfFetch(r, e) ==
    LET ev == FetchOf(trace[r], e)
    IN  /\ BagCardinality(result[r][e]) = Min(ev.n, ReadLimit)
        /\ KeysOf(result[r][e]) \subseteq {PyStr(ev.ids[i]) : i \in DOMAIN ev.ids}

\* C11 as claimed: after a successful run that fetched N records of an
\* entity type the sample of that type has min(N, 1000) rows, each keyed by
\* the string form of one of the N source ids, and never more than 1000 rows.
C11_SampleOfSource ==
    \A r \in Runs :
        pc[r].op = "returned" =>
            \A e \in EntitySet :
                /\ SampleOfFetch(r, e)
                /\ BagCardinality(result[r][e]) <= ReadLimit

\* C11 as amended: the sample is of the main table, rows of earlier loads
\* included: min(M, 1000) of the M rows the table holds after the run, never
\* more than 1000; it is the sample of the N fetched records when the main
\* table was empty as the run began.
C11_SampleOfMain ==
    \A r \in Runs :
        pc[r].op = "returned" =>
            \A e \in EntitySet :
                /\ BagCardinality(result[r][e])
                      = Min(BagCardinality(rows[MainTable(e)]), ReadLimit)
                /\ result[r][e] \sqsubseteq RowDicts(rows[MainTable(e)])
                /\ BagCardinality(result[r][e]) <= ReadLimit
                /\ mainAtStart[r][e] = EmptyBag => SampleOfFetch(r, e)

\* C11 witness: a run on empty main tables returned the two customers and
\* the product it fetched.
C11_Witness ==
    \E r \in Runs :
        /\ pc[r].op = "returned"
        /\ mainAtStart[r] = NoResult
        /\ FetchOf(trace[r], Entities[1]).n = 2
        /\ BagCardinality(result[r][Entities[1]]) = 2
        /\ BagCardinality(result[r][Entities[2]]) = 1

\* C11 witness of the limit: the main table holds more than ReadLimit rows
\* and the sample holds ReadLimit of them.
C11_WitnessLimit ==
    \E r \in Runs :
        /\ pc[r].op = "returned"
        /\ BagCardinality(rows[MainTable(Entities[1])]) > ReadLimit
        /\ BagCardinality(result[r][Entities[1]]) = ReadLimit

\* The row of a customer that carries nothing but an id, by the schema.
CustomerDefaults ==
    [email |-> JStr(""), first_name |-> JStr(""), last_name |-> JStr(""),
     created_at |-> JNull, updated_at |-> JNull,
     orders_count |-> JNum(0), total_spent |-> JFloat(0)]

\* The row of a product that carries nothing but an id, by the schema.
ProductDefaults ==
    [title |-> JStr(""), vendor |-> JStr(""), product_type |-> JStr(""),
     created_at |-> JNull, updated_at |-> JNull, price |-> JFloat(0)]

\* Every record of the batch carries an id.
AllCarryId(batch) == \A i \in DOMAIN batch : "id" \in DOMAIN batch[i]

\* C12 as claimed: a transform of K records that all carry an id does not
\* raise and yields K rows, row i keyed by the id of record i, and the row of
\* a record that carries nothing but its id holds the schema defaults.
C12_TotalInOrder ==
    [][(pc["A"].op = "transform" /\ AllCarryId(data["A"])) =>
          /\ pc'["A"].op # "raised"
          /\ Len(df'["A"]) = Len(data["A"])
          /\ \A i \in DOMAIN data["A"] :
                /\ df'["A"][i].key = PyStr(data["A"][i]["id"])
                /\ DOMAIN data["A"][i] = {"id"} =>
                      df'["A"][i].cols = (IF pc["A"].on = "customers"
                                          THEN CustomerDefaults ELSE ProductDefaults)]_vars

\* The record without the fields that are null.
DropNulls(record) == [f \in {g \in DOMAIN record : record[g] # JNull} |-> record[f]]

\* C13 as claimed: the transform of a batch is the transform of the batch
\* with every null field left out: it raises when that one raises and
\* yields the rows that one yields.
C13_NullAsAbsent ==
    [][pc["A"].op = "transform" =>
          LET clean == [i \in DOMAIN data["A"] |-> DropNulls(data["A"][i])]
          IN  /\ (pc'["A"].op = "raised") = TransformRaises(pc["A"].on, clean)
              /\ pc'["A"].op # "raised" => df'["A"] = Transform(pc["A"].on, clean)]_vars

\* The product has a variant list with at least one element.
VariantsGiven(product) ==
    /\ "variants" \in DOMAIN product
    /\ product["variants"].t = "list"
    /\ product["variants"].l # <<>>

\* C19: transform_products does not raise on a batch of products that
\* carry an id and have no variant list, a null one or an empty one, and
\* whenever it returns, the price of each row is 0.0 for such a product and
\* the price of the first variant for a product that has variants.
C19_PriceOfFirstVariant ==
    [][(pc["A"] = Pc("transform", "products")) =>
          /\ ( /\ AllCarryId(data["A"])
               /\ \A i \in DOMAIN data["A"] : ~VariantsGiven(data["A"][i]) )
             => pc'["A"].op # "raised"
          /\ pc'["A"].op # "raised" =>
                \A i \in DOMAIN data["A"] :
                    df'["A"][i].cols.price =
                        IF VariantsGiven(data["A"][i])
                        THEN Float(data["A"][i]["variants"].l[1]["price"])
                        ELSE JFloat(0)]_vars

\* C19 witness: a batch of a product with two variants of different price
\* and a product with an empty variant list has been transformed.
C19_Witness ==
    /\ pc["A"] = AfterTransform("products")
    /\ Len(data["A"]) = 2
    /\ VariantsGiven(data["A"][1])
    /\ Len(data["A"][1]["variants"].l) = 2
    /\ df["A"][1].cols.price = JFloat(5)
    /\ "variants" \in DOMAIN data["A"][2]
    /\ data["A"][2]["variants"] = JList(<<>>)
    /\ df["A"][2].cols.price = JFloat(0)

\* C14: when the batch of an entity type holds a malformed record the
\* transform raises and the run with it: no rows are returned, that type is
\* neither staged nor merged and its main table holds what it held when the
\* run began; a batch that was transformed held no record without id.
C14_MalformedAborts ==
    \A r \in Runs :
        /\ (pc[r].op = "raised" /\ err[r].op = "transform") =>
              /\ FetchOf(trace[r], err[r].on).n > Len(FetchOf(trace[r], err[r].on).ids)
              /\ result[r] = NoResult
              /\ ~Has(trace[r], "transform", err[r].on)
              /\ ~Has(trace[r], "load", err[r].on)
              /\ ~Has(trace[r], "merge", err[r].on)
              /\ rows[MainTable(err[r].on)] = mainAtStart[r][err[r].on]
        /\ \A e \in EntitySet :
              Has(trace[r], "transform", e) =>
                  FetchOf(trace[r], e).n = Len(FetchOf(trace[r], e).ids)

\* C14 witness: the customers batch held a record with an id and a record
\* without, the transform raised, the main table is not empty.
C14_Witness ==
    \E r \in Runs :
        /\ pc[r].op = "raised"
        /\ err[r].op = "transform"
        /\ err[r].on = Entities[1]
        /\ FetchOf(trace[r], Entities[1]).n = 2
        /\ Len(FetchOf(trace[r], Entities[1]).ids) = 1
        /\ rows[MainTable(Entities[1])] # EmptyBag

\* C15 as claimed: the batch a run is about to hand to load_to_staging has
\* a key that is not null in every row and no key in two rows.
C15_BatchKeysUnique ==
    \A r \in Runs :
        pc[r].op = "load" =>
            /\ \A i \in DOMAIN df[r] : df[r][i].key \notin {"", PyStr(JNull)}
            /\ DistinctKeys(df[r])

\* No call of run r failed because of what the other run did to the
\* staging table: a call fails only when the warehouse fails it.
C16_BothComplete == \A r \in Runs : err[r].why \in {None, "failed"}

\* C16 as claimed: of two runs that load the same entity type at once none
\* fails because of the other, and the merge that completes last leaves, for
\* every key of both batches, the values of its own batch in the main table.
C16_LastMergeWins ==
    /\ []C16_BothComplete
    /\ [][\A r \in Runs : \A o \in Runs \ {r} :
            ( /\ pc[r] = Pc("merge", LoaderEntity)
              /\ pc'[r] = AfterMerge(LoaderEntity)
              /\ Has(trace[o], "merge", LoaderEntity) )
            => \A i \in DOMAIN df[r] :
                  df[r][i].key \in {df[o][j].key : j \in DOMAIN df[o]}
                  => \A x \in BagToSet(rows'[MainTable(LoaderEntity)]) :
                        x.key = df[r][i].key => x = df[r][i]]_vars

\* C17: no step of any run, completed, skipped or failed, takes a key out
\* of a main table or leaves it with fewer rows: a main table changes only
\* by the merge, which updates rows and inserts rows.
C17_MainNeverShrinks ==
    [][\A e \in EntitySet :
          /\ KeysOf(rows[MainTable(e)]) \subseteq KeysOf(rows'[MainTable(e)])
          /\ BagCardinality(rows[MainTable(e)]) <= BagCardinality(rows'[MainTable(e)])
          /\ rows'[MainTable(e)] # rows[MainTable(e)] =>
                \E r \in Runs : pc[r] = Pc("merge", e) /\ pc'[r] = AfterMerge(e)]_vars

\* C17 witness: a run whose batch held one of the two keys of the main
\* table, with other values, has merged and returned: both keys are there.
C17_Witness ==
    \E r \in Runs :
        /\ pc[r].op = "returned"
        /\ Cardinality(KeysOf(mainAtStart[r][Entities[1]])) = 2
        /\ FetchOf(trace[r], Entities[1]).n = 1
        /\ Has(trace[r], "merge", Entities[1])
        /\ rows[MainTable(Entities[1])] # mainAtStart[r][Entities[1]]
        /\ KeysOf(rows[MainTable(Entities[1])]) = KeysOf(mainAtStart[r][Entities[1]])

\* The URLs a Link header gives with rel="next".
NextUrls(links) == {links[i].url : i \in {j \in DOMAIN links : links[j].rel = "next"}}

RECURSIVE Pages(_)
\* The records of the responses to the requests q, in the order of q.
Pages(q) == IF q = <<>> THEN <<>> ELSE Pages(SubSeq(q, 1, Len(q) - 1)) \o q[Len(q)].page

\* C20: the first request of a fetch goes to the resource with limit=250,
\* every later one to the rel="next" URL of the response before it with no
\* params; the fetch goes on exactly while the last response has a
\* rel="next" link; every response was asked for once and its records taken
\* once; after a failed request the run has raised, no request follows, and
\* there is no fetch result and no row.
C20_Pagination ==
    \A r \in Runs :
        LET q == reqs[r]
        IN  /\ q # <<>> =>
                  /\ q[1].url = Url(pc[r].on, 0)
                  /\ q[1].params = {<<"limit", 250>>}
                  /\ \A i \in 2..Len(q) :
                        /\ q[i].params = {}
                        /\ NextUrls(q[i - 1].links) = {q[i].url}
                  /\ data[r] = Pages(q)
                  /\ pc[r].op = "request" =>
                        /\ NextUrls(q[Len(q)].links) = {endpoint[r]}
                        /\ params[r] = {}
                  /\ pc[r].op = "fetched" => NextUrls(q[Len(q)].links) = {}
                  /\ pc[r].op \in {"request", "fetched"}
            /\ (pc[r].op = "raised" /\ err[r].op = "request") =>
                  /\ q = <<>>
                  /\ data[r] = <<>>
                  /\ result[r] = NoResult
                  /\ ~Has(trace[r], "fetch", err[r].on)

\* C20 witness: a fetch of three requests has returned: the second and the
\* third went to the next link of the response before them.
C20_Witness ==
    \E r \in Runs :
        /\ pc[r].op = "fetched"
        /\ Len(reqs[r]) = 3
        /\ Len(data[r]) = 2
        /\ reqs[r][3].url # reqs[r][2].url

\* C20 witness of the failure: the third request of a fetch failed.
C20_WitnessFailed ==
    \E r \in Runs : pc[r].op = "raised" /\ err[r].op = "request" /\ err[r].page = 3

\* The required settings that are not set.
Unset == {v \in Range(Required) : env[v] = ""}

\* While run_pipeline is or was running for a request, the four settings
\* are set and both connect endpoints have succeeded.
C18_Configured ==
    \A r \in Runs : pc[r].op # "idle" => (Unset = {} /\ connected = Connectors)

C18_WitnessRun ==
    /\ reply["A"].status = 200
    /\ requests = 2
    /\ pc["A"].op = "returned"
    /\ \E r \in Runs : Has(trace[r], "merge", Entities[1])

\* C21: when run_pipeline has returned, the staging table of an entity type
\* is absent exactly when the fetch of that type returned records; after an
\* empty fetch the staging table the run ensured at its start was not
\* deleted by the run and exists.
C21_StagingAbsentIffFetched ==
    \A r \in Runs :
        pc[r].op = "returned" =>
            \A e \in EntitySet :
                /\ ~exists[StagingTable(e)] <=> FetchOf(trace[r], e).n > 0
                /\ Skipped(trace[r], e) =>
                      /\ Has(trace[r], "table", StagingTable(e))
                      /\ ~Has(trace[r], "delete", e)
                      /\ exists[StagingTable(e)]

\* C21 witness: a run returned after an empty customers fetch and a products
\* fetch with records: the customers staging table exists, the products
\* staging table does not.
C21_Witness ==
    \E r \in Runs :
        /\ pc[r].op = "returned"
        /\ Skipped(trace[r], Entities[1])
        /\ FetchOf(trace[r], Entities[2]).n > 0
        /\ exists[StagingTable(Entities[1])]
        /\ ~exists[StagingTable(Entities[2])]

\* C21 witness of a later run: the customers staging table a first run
\* deleted is there again after a run whose customers fetch was empty.
C21_WitnessAgain ==
    \E r \in Runs :
        /\ pc[r].op = "returned"
        /\ Skipped(trace[r], Entities[1])
        /\ mainAtStart[r][Entities[1]] # EmptyBag
        /\ exists[StagingTable(Entities[1])]

\* The three settings the analyze endpoint looks at are set.
ContextConfigured == \A i \in DOMAIN ContextSettings : env[ContextSettings[i]] # ""

\* The analyze endpoint takes a request and gives r a new response.
Arrives(r) == reply[r].status # 1 /\ requests' = requests + 1 /\ reply'[r] # reply[r]

\* The analyze endpoint answers the request it ran run_pipeline for: the
\* run has returned or raised, the answer is 200; of a run that returned,
\* the context holds min(n, ContextLimit) of the n rows of each entity type,
\* never more than ContextLimit; of a run that raised there is no context.
AnswersAfterRun(r) ==
    (reply[r].status = 1 /\ reply'[r].status # 1) =>
        /\ pc[r].op \in {"returned", "raised"}
        /\ UNCHANGED <<pc, warehouse>>
        /\ reply'[r].status = 200
        /\ pc[r].op = "raised" => reply'[r].context = NoContext
        /\ pc[r].op = "returned" =>
              /\ reply'[r].context.given
              /\ \A e \in EntitySet :
                    LET given == reply'[r].context.rows[e]
                    IN  /\ given \sqsubseteq result[r][e]
                        /\ BagCardinality(given)
                              = Min(BagCardinality(result[r][e]), ContextLimit)
                        /\ BagCardinality(given) <= ContextLimit

\* The run behind a context was a complete run_pipeline: both entity types
\* fetched, each staged, merged and cleaned up unless its fetch was empty,
\* both read back.
CompleteRun(r) ==
    /\ pc[r].op = "returned"
    /\ \A e \in EntitySet :
          /\ Has(trace[r], "fetch", e)
          /\ Has(trace[r], "readback", e)
          /\ \/ Skipped(trace[r], e)
             \/ \A op \in {"transform", "load", "merge", "delete"} : Has(trace[r], op, e)

C22_WitnessFailed ==
    \E r \in Runs :
        /\ reply[r] = Analysis(200, NoContext)
        /\ pc[r].op = "raised"
        /\ err[r].op = "merge"
        /\ err[r].on = Entities[2]
        /\ rows[MainTable(Entities[1])] # mainAtStart[r][Entities[1]]

\* C22 witness of the token: without SHOPIFY_API_TOKEN the run created the
\* dataset and the four tables, failed at its first request, and the
\* request was answered 200 without context.
C22_WitnessNoToken ==
    \E r \in Runs :
        /\ env["SHOPIFY_API_TOKEN"] = ""
        /\ reply[r] = Analysis(200, NoContext)
        /\ pc[r].op = "raised"
        /\ err[r].op = "request"
        /\ \A t \in Tables : exists[t]
        /\ requests = 1

\* C22 witness of a rejected request: the three settings and the key are
\* set, the request had no prompt: 400, and nothing has run.
C22_WitnessRejected ==
    \E r \in Runs :
        /\ ContextConfigured
        /\ env["GEMINI_API_KEY"] # ""
        /\ reply[r].status = 400
        /\ pc[r].op = "idle"

====
